---- MODULE Spec2Model ----
(***************************************************************************)
(* Model of the stealth behaviour engine of go-linkedin-automation-tool    *)
(* (src/internal/stealth/stealth.go): HumanMouseMove, generateBezierPath,  *)
(* HumanType, RandomDelay, ScrollNaturally, IdleBehavior, EnforceCooldown, *)
(* IsWithinBusinessHours and ShouldRateLimit.                              *)
(*                                                                         *)
(* Durations of the step operations are in milliseconds.  Random draws     *)
(* (rand.Intn, rand.Int63n, rand.Float64) are nondeterministic choices     *)
(* over the extremes and the middle of the range the call can return.      *)
(* The browser driver (go-rod) is modelled by its effect on an element's   *)
(* content and selection, the pointer position and the scroll offset;      *)
(* each driver call may fail.                                              *)
(***************************************************************************)
EXTENDS Integers, Sequences, FiniteSets, TLC

VARIABLES
    config,      \* sm.config: the StealthConfig given to NewStealthManager
    ctxErr,      \* ctx.Err() of the running call's context: "nil" until cancelled
    pc,          \* position of the call: "idle" before it, "done" once it returned
    call,        \* the running (or last) call: [op |-> name, args |-> tuple]
    ret,         \* what the last call returned: [kind, msg, cause]
    out,         \* boolean result of IsWithinBusinessHours / ShouldRateLimit
    text,        \* HumanType: the runes of the text argument
    k,           \* loop position: 1-based index of the next rune / point / step
    n,           \* loop bound: steps (scroll), movements (idle)
    path,        \* HumanMouseMove / generateBezierPath: the generated path
    stepSize,    \* ScrollNaturally: stepSize
    scrollDistance, \* ScrollNaturally: scrollDistance
    elem,        \* the target element: [content |-> runes, selected |-> BOOLEAN]
    mouse,       \* pointer position after the last successful MoveTo
    scrollY,     \* sum of the deltas of the successful Scroll calls of the call
    acts,        \* number of driver actions attempted by the running call
    lastAct,     \* the last driver action attempted: [kind, arg, err]
    sleepCount,  \* time.Sleep calls of the running call, per kind
    lastSleep,   \* the last time.Sleep: [kind, d]
    clock,       \* time.Now(), in the units of the timing calls
    retry,       \* RetryWithBackoff: [config, attempt, lastErr] and the log of
                 \* the call: errs, what each invocation of the operation
                 \* returned, and delays, each delay given to time.After
    limiter,     \* SimpleRateLimiter: [maxConnections, timeWindow, connections]
    recorded,    \* time.Now() of every RecordConnection made on the limiter
    connect      \* ConnectManager: its storage, the goroutines calling
                 \* SendConnectionRequest, the calls started and the
                 \* time.Now() of every click of the Send button

vars == <<config, ctxErr, pc, call, ret, out, text, k, n, path, stepSize,
          scrollDistance, elem, mouse, scrollY, acts, lastAct, sleepCount,
          lastSleep, clock, retry, limiter, recorded, connect>>

(***************************************************************************)
(* Bounds of the model.                                                    *)
(***************************************************************************)
MaxTextLen == 3      \* longest text typed
DurMax == 7          \* largest time.Duration of the timing calls (int64 scaled down)
ClockMax == 4        \* latest time.Now() at which a timing call starts
MaxCount == 4        \* largest actionCount / maxActions of ShouldRateLimit
RetryMaxAttempts == 3  \* largest MaxAttempts of a RetryConfig
MaxConnections == 2  \* largest maxConnections of a SimpleRateLimiter
MaxCalls == 3  \* calls of SendConnectionRequest made on one ConnectManager
MaxRecords == 3      \* most RecordConnection calls on one limiter

(***************************************************************************)
(* Go arithmetic.                                                          *)
(***************************************************************************)
Abs(x) == IF x < 0 THEN -x ELSE x

Min2(a, b) == IF a < b THEN a ELSE b

Max2(a, b) == IF a > b THEN a ELSE b

\* Go integer division truncates toward zero.
GoDiv(a, b) ==
    IF (a >= 0) = (b > 0) THEN Abs(a) \div Abs(b) ELSE -(Abs(a) \div Abs(b))

\* time.Duration is a signed 64-bit integer; the timing calls keep its
\* two's-complement arithmetic at the width DurMin..DurMax.
DurMin == -DurMax - 1

Durations == DurMin..DurMax

WrapDuration(x) == ((x - DurMin) % (DurMax - DurMin + 1)) + DurMin

\* time.Time.Sub (used by time.Since) saturates at the Duration range.
SaturateDuration(x) ==
    IF x > DurMax THEN DurMax ELSE IF x < DurMin THEN DurMin ELSE x

\* rand.Intn(m) / rand.Int63n(m) for m > 0: every value of a small range,
\* and 0, the middle and m - 1 of a large one.
RandDraws(m) == IF m <= 8 THEN 0..(m - 1) ELSE {0, m \div 2, m - 1}

(***************************************************************************)
(* Errors.                                                                 *)
(***************************************************************************)
Running == [kind |-> "running", msg |-> "", cause |-> ""]

Nil == [kind |-> "nil", msg |-> "", cause |-> ""]

\* `return err` with err = ctx.Err(): the context's error itself.
CtxError(e) == [kind |-> "ctx", msg |-> e, cause |-> ""]

\* fmt.Errorf("<msg>: %w", err): a new error wrapping the driver's error.
Wrapped(m, e) == [kind |-> "wrapped", msg |-> m, cause |-> e]

\* fmt.Errorf("<msg>") with no wrapped error.
Plain(m) == [kind |-> "plain", msg |-> m, cause |-> ""]

\* A run-time panic (rand.Int63n with a non-positive argument).
Panic(m) == [kind |-> "panic", msg |-> m, cause |-> ""]

CtxErrs == {"context canceled", "context deadline exceeded"}

\* Errors a driver call can return.
DriverErrs == {"driver error"}

NoAct == [kind |-> "none", arg |-> <<>>, err |-> "nil"]

NoSleep == [kind |-> "none", d |-> 0]

SleepKinds == {"keystroke", "mistake", "correction", "mouse", "scroll", "idle",
               "delay", "cooldown"}

NoSleeps == [s \in SleepKinds |-> 0]

\* time.Sleep(d) of the given kind.
Sleep(kind, d) ==
    /\ sleepCount' = [sleepCount EXCEPT ![kind] = @ + 1]
    /\ lastSleep' = [kind |-> kind, d |-> d]

NoSleepNow == UNCHANGED <<sleepCount, lastSleep>>

(***************************************************************************)
(* Text: a Go string is a byte sequence; `range` decodes it rune by rune.  *)
(* "a" is a one-byte rune, "e_acute" a two-byte rune, "x80" a byte that is *)
(* not valid UTF-8 (decoded as U+FFFD with width 1).                       *)
(***************************************************************************)
Chars == {"a", "e_acute", "x80"}

ByteLen(c) == IF c = "e_acute" THEN 2 ELSE 1

\* string(char) of the rune `range` yields for c.
RuneString(c) == IF c = "x80" THEN "uFFFD" ELSE c

RECURSIVE ByteSum(_, _)
\* number of bytes of the first j runes of t
ByteSum(t, j) == IF j = 0 THEN 0 ELSE ByteSum(t, j - 1) + ByteLen(t[j])

\* len(text)
GoLen(t) == ByteSum(t, Len(t))

\* the index i that `for i, char := range text` gives the j-th rune
ByteIndex(t, j) == ByteSum(t, j - 1)

Texts == UNION {[1..m -> Chars] : m \in 0..MaxTextLen}

\* 'a' + rand.Intn(26)
WrongChars == {"a", "z"}

(***************************************************************************)
(* The element under the driver.                                           *)
(***************************************************************************)
\* element.SelectAllText(): the whole content becomes the selection.
SelectAllText(e) == [e EXCEPT !.selected = (Len(e.content) > 0)]

\* element.Input(s): the text replaces the selection, or is appended.
Input(e, s) ==
    [content |-> IF e.selected THEN <<s>> ELSE Append(e.content, s),
     selected |-> FALSE]

\* keyActions.Press(input.Backspace).Do(): deletes the selection, or the last rune.
Backspace(e) ==
    [content |-> IF e.selected \/ Len(e.content) = 0 THEN <<>>
                 ELSE SubSeq(e.content, 1, Len(e.content) - 1),
     selected |-> FALSE]

(***************************************************************************)
(* Configurations and inputs.                                              *)
(***************************************************************************)
DefaultTypingMinDelay == 50

DefaultTypingMaxDelay == 200

\* values of TypingMinDelay / TypingMaxDelay (ms); 0 is "not configured"
TypingDelays == {0, 10, 100, 300}

StealthConfig(tmin, tmax, bh, bs, be) ==
    [TypingMinDelay |-> tmin, TypingMaxDelay |-> tmax,
     BusinessHours |-> bh, BusinessStart |-> bs, BusinessEnd |-> be]

\* the configuration of the test suite and the zero configuration
EngineConfigs ==
    {StealthConfig(DefaultTypingMinDelay, DefaultTypingMaxDelay, FALSE, 0, 0),
     StealthConfig(0, 0, FALSE, 0, 0)}

TypingConfigs ==
    {StealthConfig(a, b, FALSE, 0, 0) : a \in TypingDelays, b \in TypingDelays}

Hours == 0..23

BusinessConfigs ==
    {StealthConfig(DefaultTypingMinDelay, DefaultTypingMaxDelay, bh, bs, be) :
        bh \in BOOLEAN, bs \in Hours, be \in Hours}

\* the context a call is given: live, or already cancelled / expired
Contexts == {"nil"} \cup CtxErrs

\* the content of the element HumanType is given
PriorContents == {<<>>, <<"q", "r">>}

Point(x, y) == [X |-> x, Y |-> y]

\* where earlier calls left the pointer
PointerStarts == {Point(0, 0), Point(640, 360)}

\* NewStealthManager, then nothing has been called yet.
\* no RetryWithBackoff call has been made
NoRetry == [config |-> <<>>, attempt |-> 0, lastErr |-> Nil, errs |-> <<>>,
            delays |-> <<>>]

\* no SimpleRateLimiter has been constructed
NoLimiter == [maxConnections |-> 0, timeWindow |-> 0, connections |-> <<>>]

\* no ConnectManager has been constructed
NoConnect == [storage |-> "nil", threads |-> <<>>, calls |-> 0, sent |-> <<>>]

InitWith(configs) ==
    /\ config \in configs
    /\ ctxErr = "nil"
    /\ pc = "idle"
    /\ call = [op |-> "none", args |-> <<>>]
    /\ ret = Nil
    /\ out = FALSE
    /\ text = <<>>
    /\ k = 0
    /\ n = 0
    /\ path = <<>>
    /\ stepSize = 0
    /\ scrollDistance = 0
    /\ elem = [content |-> <<>>, selected |-> FALSE]
    /\ mouse = Point(0, 0)
    /\ scrollY = 0
    /\ acts = 0
    /\ lastAct = NoAct
    /\ sleepCount = NoSleeps
    /\ lastSleep = NoSleep
    /\ clock = 0
    /\ retry = NoRetry
    /\ limiter = NoLimiter
    /\ recorded = <<>>
    /\ connect = NoConnect

\* `return r`
Return(r) ==
    /\ pc' = "done"
    /\ ret' = r

\* one driver call of the given kind, returning err ("nil" when it succeeds)
Act(kind, arg, err) ==
    /\ acts' = acts + 1
    /\ lastAct' = [kind |-> kind, arg |-> arg, err |-> err]

\* the context of the running call is cancelled, or its deadline passes
Cancel ==
    /\ pc \notin {"idle", "done"}
    /\ ctxErr = "nil"
    /\ \E e \in CtxErrs : ctxErr' = e
    /\ UNCHANGED <<connect, retry, limiter, recorded, config, pc, call, ret, out, text, k, n, path, stepSize,
                   scrollDistance, elem, mouse, scrollY, acts, lastAct,
                   sleepCount, lastSleep, clock>>

(***************************************************************************)
(* HumanType                                                               *)
(***************************************************************************)
\* TypingBounds with the defaults substituted for both bounds when either is zero
TypingBoundsEitherZero(cfg) ==
    IF cfg.TypingMinDelay = 0 \/ cfg.TypingMaxDelay = 0
    THEN <<DefaultTypingMinDelay, DefaultTypingMaxDelay>>
    ELSE <<cfg.TypingMinDelay, cfg.TypingMaxDelay>>

\* minDelay, maxDelay after the substitution of the defaults
TypingBounds(cfg) ==
    <<IF cfg.TypingMinDelay = 0 THEN DefaultTypingMinDelay ELSE cfg.TypingMinDelay,
      IF cfg.TypingMaxDelay = 0 THEN DefaultTypingMaxDelay ELSE cfg.TypingMaxDelay>>

\* `if i < len(text)-1` for the j-th rune of t
SleepsAfter(t, j) == ByteIndex(t, j) < GoLen(t) - 1

\* the call, up to the first loop iteration: element.SelectAllText()
HumanTypeStart ==
    /\ pc = "idle"
    /\ \E t \in Texts, c0 \in Contexts, prior \in PriorContents :
        /\ call' = [op |-> "HumanType", args |-> <<t, prior>>]
        /\ ctxErr' = c0
        /\ text' = t
        /\ k' = 1
        /\ \/ \E e \in DriverErrs :
                /\ Act("selectall", <<>>, e)
                /\ elem' = [content |-> prior, selected |-> FALSE]
                /\ Return(Wrapped("failed to select existing text", e))
           \/ /\ Act("selectall", <<>>, "nil")
              /\ elem' = SelectAllText([content |-> prior, selected |-> FALSE])
              /\ pc' = "type_check"
              /\ ret' = Running
    /\ sleepCount' = NoSleeps
    /\ lastSleep' = NoSleep
    /\ scrollY' = 0
    /\ UNCHANGED <<connect, retry, limiter, recorded, config, out, n, path, stepSize, scrollDistance, mouse, clock>>

\* head of `for i, char := range text`: loop exit, ctx.Err(), mistake draw
TypeCheck ==
    /\ pc = "type_check"
    /\ IF k > Len(text)
       THEN Return(Nil)
       ELSE IF ctxErr # "nil"
       THEN Return(CtxError(ctxErr))
       ELSE \E mistake \in BOOLEAN :
              /\ pc' = IF mistake /\ ByteIndex(text, k) > 0
                       THEN "type_wrong" ELSE "type_char"
              /\ ret' = ret
    /\ UNCHANGED <<connect, retry, limiter, recorded, config, ctxErr, call, out, text, k, n, path, stepSize,
                   scrollDistance, elem, mouse, scrollY, acts, lastAct,
                   sleepCount, lastSleep, clock>>

\* the wrong character and the delay before the correction
TypeWrong ==
    /\ pc = "type_wrong"
    /\ \E w \in WrongChars :
        /\ \/ \E e \in DriverErrs :
                /\ Act("input", <<w>>, e)
                /\ Return(Wrapped("failed to input wrong character", e))
                /\ elem' = elem
                /\ NoSleepNow
           \/ \E r \in RandDraws(200) :
                /\ Act("input", <<w>>, "nil")
                /\ elem' = Input(elem, w)
                /\ Sleep("mistake", r + 100)
                /\ pc' = "type_backspace"
                /\ ret' = ret
    /\ UNCHANGED <<connect, retry, limiter, recorded, config, ctxErr, call, out, text, k, n, path, stepSize,
                   scrollDistance, mouse, scrollY, clock>>

\* element.KeyActions(), Press(input.Backspace).Do() and the delay after it
TypeBackspace ==
    /\ pc = "type_backspace"
    /\ \/ \E e \in DriverErrs :
            /\ Act("keyactions", <<>>, e)
            /\ Return(Wrapped("failed to get key actions", e))
            /\ elem' = elem
            /\ NoSleepNow
       \/ /\ \/ \E e \in DriverErrs :
                  /\ Act("backspace", <<>>, e)
                  /\ Return(Wrapped("failed to press backspace", e))
                  /\ elem' = elem
                  /\ NoSleepNow
             \/ \E r \in RandDraws(100) :
                  /\ Act("backspace", <<>>, "nil")
                  /\ elem' = Backspace(elem)
                  /\ Sleep("correction", r + 50)
                  /\ pc' = "type_char"
                  /\ ret' = ret
    /\ UNCHANGED <<connect, retry, limiter, recorded, config, ctxErr, call, out, text, k, n, path, stepSize,
                   scrollDistance, mouse, scrollY, clock>>

\* the actual character and the delay between keystrokes
TypeChar ==
    /\ pc = "type_char"
    /\ \/ \E e \in DriverErrs :
            /\ Act("input", <<RuneString(text[k])>>, e)
            /\ Return(Wrapped("failed to input character", e))
            /\ UNCHANGED <<elem, k>>
            /\ NoSleepNow
       \/ /\ Act("input", <<RuneString(text[k])>>, "nil")
          /\ elem' = Input(elem, RuneString(text[k]))
          /\ IF SleepsAfter(text, k)
             THEN LET minDelay == TypingBounds(config)[1]
                      maxDelay == TypingBounds(config)[2]
                  IN IF maxDelay - minDelay <= 0
                     THEN /\ Return(Panic("invalid argument to Int63n"))
                          /\ k' = k
                          /\ NoSleepNow
                     ELSE \E r \in RandDraws(maxDelay - minDelay) :
                            /\ Sleep("keystroke", minDelay + r)
                            /\ k' = k + 1
                            /\ pc' = "type_check"
                            /\ ret' = ret
             ELSE /\ NoSleepNow
                  /\ k' = k + 1
                  /\ pc' = "type_check"
                  /\ ret' = ret
    /\ UNCHANGED <<connect, retry, limiter, recorded, config, ctxErr, call, out, text, n, path, stepSize,
                   scrollDistance, mouse, scrollY, clock>>

InitTyping == InitWith(TypingConfigs)

NextTyping ==
    \/ HumanTypeStart
    \/ TypeCheck
    \/ TypeWrong
    \/ TypeBackspace
    \/ TypeChar
    \/ Cancel

SpecTyping == InitTyping /\ [][NextTyping]_vars

(***************************************************************************)
(* Geometry.  Coordinates are kept in quarter pixels, so that the control  *)
(* points at 25% and 75% of the line are exact; Px(x) is x pixels.  The    *)
(* curve parameter t = i / (steps - 1) is kept exact as the pair (i,       *)
(* steps - 1); a sampled point is rounded down to a quarter pixel.         *)
(***************************************************************************)
Px(x) == 4 * x

PxPoint(x, y) == Point(Px(x), Px(y))

MinSteps == 10

MaxSteps == 100

\* largest r with r * r <= m, for m up to the square of the page's diagonal
FloorSqrt(m) == CHOOSE r \in 0..4000 : r * r <= m /\ (r + 1) * (r + 1) > m

\* RawSteps with distance / 5 rounded to the nearest integer
RawStepsRounded(start, end) ==
    LET dx == end.X - start.X
        dy == end.Y - start.Y
    IN (FloorSqrt(dx * dx + dy * dy) + 10) \div 20

\* int(distance / 5) before the clamp, with the distance in quarter pixels;
\* floor(sqrt(m) / 20) is floor(floor(sqrt(m)) / 20), so the integer square
\* root suffices.
RawSteps(start, end) ==
    LET dx == end.X - start.X
        dy == end.Y - start.Y
    IN FloorSqrt(dx * dx + dy * dy) \div 20

\* steps of generateBezierPath
PathSteps(start, end) ==
    IF RawSteps(start, end) < MinSteps THEN MinSteps
    ELSE IF RawSteps(start, end) > MaxSteps THEN MaxSteps
    ELSE RawSteps(start, end)

\* cubicBezier at t = i / q on one axis
Bezier1(p0, p1, p2, p3, i, q) ==
    LET t == i
        u == q - i
    IN (u * u * u * p0 + 3 * u * u * t * p1 + 3 * u * t * t * p2 + t * t * t * p3)
         \div (q * q * q)

cubicBezier(p0, p1, p2, p3, i, q) ==
    Point(Bezier1(p0.X, p1.X, p2.X, p3.X, i, q),
          Bezier1(p0.Y, p1.Y, p2.Y, p3.Y, i, q))

\* (rand.Float64()-0.5)*50 for cp1X, cp1Y, cp2X, cp2Y: within [-25, 25) pixels
ControlNoises == {<<0, 0, 0, 0>>, <<Px(-25), Px(25) - 1, Px(25) - 1, Px(-25)>>}

\* (rand.Float64()-0.5)*2 for the X and Y of the i-th point: within [-1, 1) pixel
JitterPatterns == {"none", "zigzag", "inward"}

\* "inward": the first point is drawn 0.75 pixel to the right and every later
\* point 1 pixel to the left, with no jitter on Y
Jitter(pattern, i) ==
    IF pattern = "none" THEN <<0, 0>>
    ELSE IF pattern = "inward" THEN (IF i = 0 THEN <<Px(1) - 1, 0>> ELSE <<Px(-1), 0>>)
    ELSE IF i % 2 = 0 THEN <<Px(-1), Px(1) - 1>> ELSE <<Px(1) - 1, Px(-1)>>

generateBezierPath(start, end, noise, jitter) ==
    LET steps == PathSteps(start, end)
        cp1 == Point(start.X + (end.X - start.X) \div 4 + noise[1],
                     start.Y + (end.Y - start.Y) \div 4 + noise[2])
        cp2 == Point(start.X + (3 * (end.X - start.X)) \div 4 + noise[3],
                     start.Y + (3 * (end.Y - start.Y)) \div 4 + noise[4])
    IN [j \in 1..steps |->
          LET point == cubicBezier(start, cp1, cp2, end, j - 1, steps - 1)
          IN Point(point.X + Jitter(jitter, j - 1)[1],
                   point.Y + Jitter(jitter, j - 1)[2])]

(***************************************************************************)
(* HumanMouseMove                                                          *)
(***************************************************************************)
\* centres of the target element's first quad
Centers == {PxPoint(100, 100), PxPoint(250, 300), PxPoint(400, 500)}

\* (rand.Float64()-0.5)*10 for targetX, targetY: within [-5, 5) pixels
TargetOffsets == {<<Px(-5), Px(-5)>>, <<Px(5) - 1, Px(5) - 1>>}

\* the default starting position
AssumedStart == PxPoint(100, 100)

\* the path starting where the pointer was left
StartPositionTracked(pointer) == pointer

\* `start := Point{X: 100, Y: 100}`: the pointer's position is not read
StartPosition(pointer) == AssumedStart

\* a shape without quads taken for a quad at the origin: the call goes on
NoVisibleAreaProceeds ==
    /\ path' = generateBezierPath(AssumedStart, PxPoint(0, 0), <<0, 0, 0, 0>>, "none")
    /\ pc' = "mouse_check"
    /\ ret' = Running

\* `if len(box.Quads) == 0`: the call returns before the path is generated
NoVisibleArea ==
    /\ Return(Plain("target element has no visible area"))
    /\ path' = <<>>

\* the call, up to the first loop iteration: target.Shape(), the target
\* point and the path
HumanMouseMoveStart ==
    /\ pc = "idle"
    /\ \E c0 \in Contexts, from \in PointerStarts :
        /\ ctxErr' = c0
        /\ mouse' = from
        /\ \/ \E e \in DriverErrs :
                /\ call' = [op |-> "HumanMouseMove", args |-> <<"shape error">>]
                /\ Return(Wrapped("failed to get target element shape", e))
                /\ path' = <<>>
           \/ /\ call' = [op |-> "HumanMouseMove", args |-> <<"no quads">>]
              /\ NoVisibleArea
           \/ \E c \in Centers, off \in TargetOffsets,
                 noise \in ControlNoises, jitter \in JitterPatterns :
                LET end == Point(c.X + off[1], c.Y + off[2])
                IN /\ call' = [op |-> "HumanMouseMove", args |-> <<"quad", end>>]
                   /\ path' = generateBezierPath(StartPosition(from), end, noise, jitter)
                   /\ pc' = "mouse_check"
                   /\ ret' = Running
    /\ k' = 1
    /\ acts' = 0
    /\ lastAct' = NoAct
    /\ sleepCount' = NoSleeps
    /\ lastSleep' = NoSleep
    /\ scrollY' = 0
    /\ UNCHANGED <<connect, retry, limiter, recorded, config, out, text, n, stepSize, scrollDistance, elem, clock>>

\* MouseCheck returning the context's error wrapped, like a driver failure
MouseCheckWrapsCtx ==
    /\ pc = "mouse_check"
    /\ IF k > Len(path)
       THEN Return(Nil)
       ELSE IF ctxErr # "nil"
       THEN Return(Wrapped("failed to move mouse to point", ctxErr))
       ELSE pc' = "mouse_move" /\ ret' = ret
    /\ UNCHANGED <<connect, retry, limiter, recorded, config, ctxErr, call, out, text, k, n, path, stepSize,
                   scrollDistance, elem, mouse, scrollY, acts, lastAct,
                   sleepCount, lastSleep, clock>>

\* head of `for i, point := range path`: loop exit and ctx.Err()
MouseCheck ==
    /\ pc = "mouse_check"
    /\ IF k > Len(path)
       THEN Return(Nil)
       ELSE IF ctxErr # "nil"
       THEN Return(CtxError(ctxErr))
       ELSE pc' = "mouse_move" /\ ret' = ret
    /\ UNCHANGED <<connect, retry, limiter, recorded, config, ctxErr, call, out, text, k, n, path, stepSize,
                   scrollDistance, elem, mouse, scrollY, acts, lastAct,
                   sleepCount, lastSleep, clock>>

\* page.Mouse.MoveTo(point) and the micro-delay
MouseMove ==
    /\ pc = "mouse_move"
    /\ \/ \E e \in DriverErrs :
            /\ Act("move", <<path[k]>>, e)
            /\ Return(Wrapped("failed to move mouse to point", e))
            /\ UNCHANGED <<mouse, k>>
            /\ NoSleepNow
       \/ /\ Act("move", <<path[k]>>, "nil")
          /\ mouse' = path[k]
          /\ IF k - 1 < Len(path) - 1
             THEN \E r \in RandDraws(5) : Sleep("mouse", r + 1)
             ELSE NoSleepNow
          /\ k' = k + 1
          /\ pc' = "mouse_check"
          /\ ret' = ret
    /\ UNCHANGED <<connect, retry, limiter, recorded, config, ctxErr, call, out, text, n, path, stepSize,
                   scrollDistance, elem, scrollY, clock>>

(***************************************************************************)
(* ScrollNaturally                                                         *)
(***************************************************************************)
\* the draws, up to the first loop iteration
ScrollNaturallyStart ==
    /\ pc = "idle"
    /\ \E c0 \in Contexts, scrollDown \in BOOLEAN,
          d \in RandDraws(300), s \in RandDraws(5) :
        LET distance == IF scrollDown THEN d + 100 ELSE -(d + 100)
            steps == s + 3
        IN /\ call' = [op |-> "ScrollNaturally", args |-> <<scrollDown>>]
           /\ ctxErr' = c0
           /\ scrollDistance' = distance
           /\ n' = steps
           /\ stepSize' = GoDiv(distance, steps)
    /\ k' = 0
    /\ pc' = "scroll_check"
    /\ ret' = Running
    /\ acts' = 0
    /\ lastAct' = NoAct
    /\ sleepCount' = NoSleeps
    /\ lastSleep' = NoSleep
    /\ scrollY' = 0
    /\ UNCHANGED <<connect, retry, limiter, recorded, config, out, text, path, elem, mouse, clock>>

\* head of `for i := 0; i < steps; i++`: loop exit and ctx.Err()
ScrollCheck ==
    /\ pc = "scroll_check"
    /\ IF ~(k < n)
       THEN Return(Nil)
       ELSE IF ctxErr # "nil"
       THEN Return(CtxError(ctxErr))
       ELSE pc' = "scroll_step" /\ ret' = ret
    /\ UNCHANGED <<connect, retry, limiter, recorded, config, ctxErr, call, out, text, k, n, path, stepSize,
                   scrollDistance, elem, mouse, scrollY, acts, lastAct,
                   sleepCount, lastSleep, clock>>

\* ScrollStep skipping a failed scroll, as IdleBehavior skips a failed move
ScrollStepSkipsFailure ==
    /\ pc = "scroll_step"
    /\ \/ \E e \in DriverErrs :
            /\ Act("scroll", <<stepSize>>, e)
            /\ scrollY' = scrollY
            /\ NoSleepNow
       \/ \E r \in RandDraws(50) :
            /\ Act("scroll", <<stepSize>>, "nil")
            /\ scrollY' = scrollY + stepSize
            /\ Sleep("scroll", r + 20)
    /\ k' = k + 1
    /\ pc' = "scroll_check"
    /\ UNCHANGED <<connect, retry, limiter, recorded, config, ctxErr, call, ret, out, text, n, path, stepSize,
                   scrollDistance, elem, mouse, clock>>

\* page.Mouse.Scroll(0, stepSize, steps) and the delay after it
ScrollStep ==
    /\ pc = "scroll_step"
    /\ \/ \E e \in DriverErrs :
            /\ Act("scroll", <<stepSize>>, e)
            /\ Return(Wrapped("failed to scroll", e))
            /\ UNCHANGED <<scrollY, k>>
            /\ NoSleepNow
       \/ \E r \in RandDraws(50) :
            /\ Act("scroll", <<stepSize>>, "nil")
            /\ scrollY' = scrollY + stepSize
            /\ Sleep("scroll", r + 20)
            /\ k' = k + 1
            /\ pc' = "scroll_check"
            /\ ret' = ret
    /\ UNCHANGED <<connect, retry, limiter, recorded, config, ctxErr, call, out, text, n, path, stepSize,
                   scrollDistance, elem, mouse, clock>>

(***************************************************************************)
(* IdleBehavior                                                            *)
(***************************************************************************)
\* rand.Float64()*800 + 100 and rand.Float64()*600 + 100
IdleXs == {Px(100), Px(500), Px(900) - 1}

IdleYs == {Px(100), Px(700) - 1}

\* one draw more than rand.Intn(4)
IdleMovementsUpToSix == {m + 2 : m \in RandDraws(5)}

\* movements := rand.Intn(4) + 2
IdleMovements == {m + 2 : m \in RandDraws(4)}

\* the draw of movements, up to the first loop iteration
IdleBehaviorStart ==
    /\ pc = "idle"
    /\ \E c0 \in Contexts, from \in PointerStarts, movements \in IdleMovements :
        /\ call' = [op |-> "IdleBehavior", args |-> <<>>]
        /\ ctxErr' = c0
        /\ mouse' = from
        /\ n' = movements
    /\ k' = 0
    /\ pc' = "idle_check"
    /\ ret' = Running
    /\ acts' = 0
    /\ lastAct' = NoAct
    /\ sleepCount' = NoSleeps
    /\ lastSleep' = NoSleep
    /\ scrollY' = 0
    /\ UNCHANGED <<connect, retry, limiter, recorded, config, out, text, path, stepSize, scrollDistance, elem, clock>>

\* head of `for i := 0; i < movements; i++`: loop exit and ctx.Err()
IdleCheck ==
    /\ pc = "idle_check"
    /\ IF ~(k < n)
       THEN Return(Nil)
       ELSE IF ctxErr # "nil"
       THEN Return(CtxError(ctxErr))
       ELSE pc' = "idle_move" /\ ret' = ret
    /\ UNCHANGED <<connect, retry, limiter, recorded, config, ctxErr, call, out, text, k, n, path, stepSize,
                   scrollDistance, elem, mouse, scrollY, acts, lastAct,
                   sleepCount, lastSleep, clock>>

\* IdleMove returning the driver's error, as the other calls do
IdleMoveReturnsFailure ==
    /\ pc = "idle_move"
    /\ \E newX \in IdleXs, newY \in IdleYs :
        /\ \/ \E e \in DriverErrs :
              /\ Act("move", <<Point(newX, newY)>>, e)
              /\ mouse' = mouse
              /\ NoSleepNow
              /\ k' = k
              /\ Return(Wrapped("failed to move mouse", e))
           \/ \E r \in RandDraws(1000) :
              /\ Act("move", <<Point(newX, newY)>>, "nil")
              /\ mouse' = Point(newX, newY)
              /\ Sleep("idle", r + 500)
              /\ k' = k + 1
              /\ pc' = "idle_check"
              /\ ret' = ret
    /\ UNCHANGED <<connect, retry, limiter, recorded, config, ctxErr, call, out, text, n, path, stepSize,
                   scrollDistance, elem, scrollY, clock>>

\* page.Mouse.MoveTo of a random point; a failure skips the pause
IdleMove ==
    /\ pc = "idle_move"
    /\ \E newX \in IdleXs, newY \in IdleYs :
        /\ \/ \E e \in DriverErrs :
              /\ Act("move", <<Point(newX, newY)>>, e)
              /\ mouse' = mouse
              /\ NoSleepNow
           \/ \E r \in RandDraws(1000) :
              /\ Act("move", <<Point(newX, newY)>>, "nil")
              /\ mouse' = Point(newX, newY)
              /\ Sleep("idle", r + 500)
    /\ k' = k + 1
    /\ pc' = "idle_check"
    /\ UNCHANGED <<connect, retry, limiter, recorded, config, ctxErr, call, ret, out, text, n, path, stepSize,
                   scrollDistance, elem, scrollY, clock>>

(***************************************************************************)
(* RandomDelay and EnforceCooldown.  Durations and times are in one scaled *)
(* unit; a Duration is an integer of DurMin..DurMax with wrap-around, a    *)
(* time.Time has a wider range.  time.Sleep(d) returns at once for d <= 0. *)
(***************************************************************************)
\* the clock after time.Sleep(d)
AfterSleep(now, d) == now + Max2(d, 0)

\* time.Now() when the call starts
Nows == 0..ClockMax

RandomDelay ==
    /\ pc = "idle"
    /\ \E now \in Nows, min0 \in Durations, max0 \in Durations :
        LET min == IF min0 > max0 THEN max0 ELSE min0
            max == IF min0 > max0 THEN min0 ELSE max0
        IN /\ call' = [op |-> "RandomDelay", args |-> <<min0, max0, now>>]
           /\ IF min = max
              THEN /\ Sleep("delay", min)
                   /\ clock' = AfterSleep(now, min)
                   /\ Return(Nil)
              ELSE IF WrapDuration(max - min) <= 0
              THEN /\ NoSleepNow
                   /\ clock' = now
                   /\ Return(Panic("invalid argument to Int63n"))
              ELSE \E r \in RandDraws(WrapDuration(max - min)) :
                     LET delay == WrapDuration(min + r)
                     IN /\ Sleep("delay", delay)
                        /\ clock' = AfterSleep(now, delay)
                        /\ Return(Nil)
    /\ UNCHANGED <<connect, retry, limiter, recorded, config, ctxErr, out, text, k, n, path, stepSize,
                   scrollDistance, elem, mouse, scrollY, acts, lastAct>>

\* lastAction, relative to time.Now(): up to beyond the Duration range on both sides
LastActionOffsets == (DurMin - 2)..(DurMax + 2)

EnforceCooldown ==
    /\ pc = "idle"
    /\ \E now \in Nows, off \in LastActionOffsets, cooldownPeriod \in Durations :
        LET lastAction == now - off
            elapsed == SaturateDuration(now - lastAction)
        IN /\ call' = [op |-> "EnforceCooldown",
                       args |-> <<lastAction, cooldownPeriod, now>>]
           /\ IF elapsed < cooldownPeriod
              THEN LET remaining == WrapDuration(cooldownPeriod - elapsed)
                   IN /\ Sleep("cooldown", remaining)
                      /\ clock' = AfterSleep(now, remaining)
              ELSE /\ NoSleepNow
                   /\ clock' = now
           /\ Return(Nil)
    /\ UNCHANGED <<connect, retry, limiter, recorded, config, ctxErr, out, text, k, n, path, stepSize,
                   scrollDistance, elem, mouse, scrollY, acts, lastAct>>

(***************************************************************************)
(* IsWithinBusinessHours and ShouldRateLimit                               *)
(***************************************************************************)
\* IsWithinBusinessHours with the end hour included in the window
IsWithinBusinessHoursInclusive(cfg, hour) ==
    IF ~cfg.BusinessHours THEN TRUE
    ELSE IF cfg.BusinessStart <= cfg.BusinessEnd
    THEN hour >= cfg.BusinessStart /\ hour <= cfg.BusinessEnd
    ELSE hour >= cfg.BusinessStart \/ hour <= cfg.BusinessEnd

IsWithinBusinessHours(cfg, hour) ==
    IF ~cfg.BusinessHours THEN TRUE
    ELSE IF cfg.BusinessStart <= cfg.BusinessEnd
    THEN hour >= cfg.BusinessStart /\ hour < cfg.BusinessEnd
    ELSE hour >= cfg.BusinessStart \/ hour < cfg.BusinessEnd

\* a call of IsWithinBusinessHours(t) with t.Hour() = hour
IsWithinBusinessHoursCall ==
    /\ pc = "idle"
    /\ \E hour \in Hours :
        /\ call' = [op |-> "IsWithinBusinessHours", args |-> <<hour>>]
        /\ out' = IsWithinBusinessHours(config, hour)
    /\ Return(Nil)
    /\ UNCHANGED <<connect, retry, limiter, recorded, config, ctxErr, text, k, n, path, stepSize, scrollDistance,
                   elem, mouse, scrollY, acts, lastAct, sleepCount, lastSleep,
                   clock>>

\* ShouldRateLimit limiting only above the maximum
ShouldRateLimitAbove(actionCount, timeWindow, maxActions) ==
    IF maxActions <= 0 THEN FALSE ELSE actionCount > maxActions

ShouldRateLimit(actionCount, timeWindow, maxActions) ==
    IF maxActions <= 0 THEN FALSE ELSE actionCount >= maxActions

\* a call of ShouldRateLimit
ShouldRateLimitCall ==
    /\ pc = "idle"
    /\ \E actionCount \in (-1)..(MaxCount + 1), timeWindow \in {0, 1},
          maxActions \in (-1)..MaxCount :
        /\ call' = [op |-> "ShouldRateLimit",
                    args |-> <<actionCount, timeWindow, maxActions>>]
        /\ out' = ShouldRateLimit(actionCount, timeWindow, maxActions)
    /\ Return(Nil)
    /\ UNCHANGED <<connect, retry, limiter, recorded, config, ctxErr, text, k, n, path, stepSize, scrollDistance,
                   elem, mouse, scrollY, acts, lastAct, sleepCount, lastSleep,
                   clock>>

\* coordinates (pixels) of the start and end points given to generateBezierPath
PathCoords == {0, 3, 100, 103, 400, 500}

\* a call of generateBezierPath(start, end)
GenerateBezierPathCall ==
    /\ pc = "idle"
    /\ \E sx \in PathCoords, sy \in PathCoords, ex \in PathCoords, ey \in PathCoords,
          noise \in ControlNoises, jitter \in JitterPatterns :
        /\ call' = [op |-> "generateBezierPath",
                    args |-> <<PxPoint(sx, sy), PxPoint(ex, ey)>>]
        /\ path' = generateBezierPath(PxPoint(sx, sy), PxPoint(ex, ey), noise, jitter)
    /\ Return(Nil)
    /\ UNCHANGED <<connect, retry, limiter, recorded, config, ctxErr, out, text, k, n, stepSize, scrollDistance,
                   elem, mouse, scrollY, acts, lastAct, sleepCount, lastSleep,
                   clock>>

InitSchedule == InitWith(BusinessConfigs)

NextSchedule == IsWithinBusinessHoursCall

SpecSchedule == InitSchedule /\ [][NextSchedule]_vars

(***************************************************************************)
(* The engine: one call of an operation, and its cancellation.             *)
(***************************************************************************)
Init == InitWith(EngineConfigs)

Next ==
    \/ HumanMouseMoveStart
    \/ MouseCheck
    \/ MouseMove
    \/ HumanTypeStart
    \/ TypeCheck
    \/ TypeWrong
    \/ TypeBackspace
    \/ TypeChar
    \/ ScrollNaturallyStart
    \/ ScrollCheck
    \/ ScrollStep
    \/ IdleBehaviorStart
    \/ IdleCheck
    \/ IdleMove
    \/ Cancel
    \/ RandomDelay
    \/ EnforceCooldown
    \/ ShouldRateLimitCall
    \/ GenerateBezierPathCall

Spec == Init /\ [][Next]_vars

(***************************************************************************)
(* RetryWithBackoff (internal/errors).  A BackoffFactor is a positive      *)
(* rational <<num, den>>; delays are whole units of time.Duration.         *)
(***************************************************************************)
\* variables of the stealth engine, untouched by the other packages
engineVars == <<config, out, text, k, n, path, stepSize, scrollDistance, elem,
                mouse, scrollY, acts, lastAct, sleepCount, lastSleep>>

\* a *LinkedInError of the given type, returned by the given invocation
LinkedInError(type, attempt) ==
    [kind |-> "linkedin", msg |-> type, cause |-> "", attempt |-> attempt]

\* an error that is not a *LinkedInError
OtherError(attempt) ==
    [kind |-> "other", msg |-> "", cause |-> "", attempt |-> attempt]

\* what an invocation of the operation can return
OpErrorTypes == {"ErrorTypeTransient", "ErrorTypePermanent"}

OpResults(attempt) ==
    {Nil} \cup {LinkedInError(t, attempt) : t \in OpErrorTypes}
          \cup {OtherError(attempt)}

\* an error made by NewError(type, operation, message, cause) in an attempt
LoginError(type, message, attempt) ==
    [kind |-> "linkedin", msg |-> type, cause |-> message, attempt |-> attempt]

\* the login sequence panicked (HumanType's delay computation can)
LoginPanicked(attempt) ==
    [kind |-> "panic", msg |-> "", cause |-> "", attempt |-> attempt]

\* what one run of the login sequence returns
LoginResults(attempt) ==
    {Nil,
     LoginError("ErrorTypeNetwork", "failed to navigate to URL", attempt),
     LoginError("ErrorTypeTimeout", "page load timeout", attempt),
     LoginError("ErrorTypeTransient", "element operation failed", attempt),
     LoginError("ErrorTypeTransient", "failed to check login state", attempt),
     LoginError("ErrorTypePermanent", "security challenge detected", attempt),
     LoginError("ErrorTypePermanent", "login failed", attempt)}

\* DefaultRetryConfig() with Login's MaxAttempts and InitialDelay
LoginRetryConfig ==
    [MaxAttempts |-> 2, InitialDelay |-> 5, MaxDelay |-> 30,
     BackoffFactor |-> <<2, 1>>,
     RetryableErrors |-> {"ErrorTypeTransient", "ErrorTypeTimeout", "ErrorTypeNetwork"}]

\* operation(ctx, attempt): the login sequence for Login, any operation otherwise
Operation(attempt) ==
    IF call.op = "Login" THEN LoginResults(attempt) ELSE OpResults(attempt)

BackoffFactors == {<<1, 2>>, <<1, 1>>, <<3, 2>>, <<2, 1>>}

RetryableSets ==
    {{}, {"ErrorTypeTransient", "ErrorTypeTimeout", "ErrorTypeNetwork"}}

RetryConfigs ==
    [MaxAttempts : 0..RetryMaxAttempts,
     InitialDelay : {0, 1, 3},
     MaxDelay : {0, 2, 7},
     BackoffFactor : BackoffFactors,
     RetryableErrors : RetryableSets]

\* shouldRetry retrying *LinkedInErrors only
shouldRetryLinkedInOnly(err, retryableTypes) ==
    err.kind = "linkedin" /\ err.msg \in retryableTypes

shouldRetry(err, retryableTypes) ==
    IF err.kind # "linkedin" THEN TRUE
    ELSE err.msg \in retryableTypes

RECURSIVE Pow(_, _)
Pow(b, e) == IF e <= 0 THEN 1 ELSE b * Pow(b, e - 1)

\* calculateBackoffDelay without the cap
calculateBackoffDelayUncapped(attempt, cfg) ==
    GoDiv(cfg.InitialDelay * Pow(cfg.BackoffFactor[1], attempt - 1),
          Pow(cfg.BackoffFactor[2], attempt - 1))

\* InitialDelay * BackoffFactor^(attempt-1), capped at MaxDelay, and the
\* conversion time.Duration(delay), which drops the fraction
calculateBackoffDelay(attempt, cfg) ==
    LET num == cfg.InitialDelay * Pow(cfg.BackoffFactor[1], attempt - 1)
        den == Pow(cfg.BackoffFactor[2], attempt - 1)
    IN IF num > cfg.MaxDelay * den THEN cfg.MaxDelay ELSE GoDiv(num, den)

RetryWithBackoffStart ==
    /\ pc = "idle"
    /\ \E cfg \in RetryConfigs, c0 \in Contexts :
        /\ retry' = [config |-> cfg, attempt |-> 1, lastErr |-> Nil,
                     errs |-> <<>>, delays |-> <<>>]
        /\ ctxErr' = c0
    /\ call' = [op |-> "RetryWithBackoff", args |-> <<>>]
    /\ pc' = "retry_head"
    /\ ret' = Running
    /\ clock' = 0
    /\ UNCHANGED <<connect, engineVars, limiter, recorded>>

\* `for attempt := 1; attempt <= config.MaxAttempts; attempt++` and the
\* `return lastErr` after the loop
RetryHead ==
    /\ pc = "retry_head"
    /\ IF retry.attempt <= retry.config.MaxAttempts
       THEN pc' = "retry_op" /\ ret' = ret
       ELSE Return(retry.lastErr)
    /\ UNCHANGED <<connect, engineVars, limiter, recorded, retry, ctxErr, call, clock>>

\* operation(ctx, attempt), the tests on its result, and the delay
RetryOperation ==
    /\ pc = "retry_op"
    /\ \E err \in Operation(retry.attempt) :
        LET log == Append(retry.errs, err)
        IN IF err.kind = "nil"
           THEN /\ retry' = [retry EXCEPT !.errs = log]
                /\ Return(Nil)
           ELSE IF ~shouldRetry(err, retry.config.RetryableErrors)
           THEN /\ retry' = [retry EXCEPT !.errs = log, !.lastErr = err]
                /\ Return(err)
           ELSE IF retry.attempt = retry.config.MaxAttempts
           THEN /\ retry' = [retry EXCEPT !.errs = log, !.lastErr = err]
                /\ Return(err)
           ELSE /\ retry' = [retry EXCEPT
                               !.errs = log, !.lastErr = err,
                               !.delays = Append(@,
                                   calculateBackoffDelay(retry.attempt, retry.config))]
                /\ pc' = "retry_wait"
                /\ ret' = ret
    /\ UNCHANGED <<connect, engineVars, limiter, recorded, ctxErr, call, clock>>

\* `case <-ctx.Done()` returning the operation's last error
RetryCancelledReturnsLastErr ==
    /\ pc = "retry_wait"
    /\ ctxErr # "nil"
    /\ Return(retry.lastErr)
    /\ UNCHANGED <<connect, engineVars, limiter, recorded, retry, ctxErr, call, clock>>

\* `case <-ctx.Done(): return ctx.Err()`
RetryCancelled ==
    /\ pc = "retry_wait"
    /\ ctxErr # "nil"
    /\ Return(CtxError(ctxErr))
    /\ UNCHANGED <<connect, engineVars, limiter, recorded, retry, ctxErr, call, clock>>

\* `case <-time.After(delay)`: the timer fires.  A select blocked on a live
\* context is woken by whichever comes first; with the context done and a
\* delay that is not positive both cases can be ready, and either is taken.
RetryTimer ==
    /\ pc = "retry_wait"
    /\ LET delay == retry.delays[Len(retry.delays)]
       IN /\ ctxErr = "nil" \/ delay <= 0
          /\ clock' = AfterSleep(clock, delay)
    /\ retry' = [retry EXCEPT !.attempt = @ + 1]
    /\ pc' = "retry_head"
    /\ UNCHANGED <<connect, engineVars, limiter, recorded, ctxErr, call, ret>>

InitRetry == InitWith({StealthConfig(0, 0, FALSE, 0, 0)})

NextRetry ==
    \/ RetryWithBackoffStart
    \/ RetryHead
    \/ RetryOperation
    \/ RetryCancelled
    \/ RetryTimer
    \/ Cancel

SpecRetry == InitRetry /\ [][NextRetry]_vars

(***************************************************************************)
(* AuthManager.Login (internal/auth): RetryWithBackoff around the login    *)
(* sequence, inside SafeExecute.  Durations are in seconds.                *)
(***************************************************************************)
\* Login accepting a nil page
LoginChecksPageNever(page) == FALSE

\* `if page == nil`
LoginRejectsPage(page) == page = "nil"

Login ==
    /\ pc = "idle"
    /\ \E page \in {"nil", "page"}, c0 \in Contexts :
        /\ call' = [op |-> "Login", args |-> <<page>>]
        /\ ctxErr' = c0
        /\ IF LoginRejectsPage(page)
           THEN /\ Return(LoginError("ErrorTypeConfiguration", "page cannot be nil", 0))
                /\ retry' = [NoRetry EXCEPT !.config = LoginRetryConfig]
           ELSE /\ retry' = [config |-> LoginRetryConfig, attempt |-> 1,
                             lastErr |-> Nil, errs |-> <<>>, delays |-> <<>>]
                /\ pc' = "retry_head"
                /\ ret' = Running
    /\ clock' = 0
    /\ UNCHANGED <<connect, engineVars, limiter, recorded>>

\* the login sequence panics: the panic leaves RetryWithBackoff and is
\* recovered by SafeExecute, which returns a permanent error
LoginPanic ==
    /\ pc = "retry_op"
    /\ call.op = "Login"
    /\ retry' = [retry EXCEPT !.errs = Append(@, LoginPanicked(retry.attempt))]
    /\ Return(LoginError("ErrorTypePermanent", "panic occurred", retry.attempt))
    /\ UNCHANGED <<connect, engineVars, limiter, recorded, ctxErr, call, clock>>

InitLogin == InitWith({StealthConfig(0, 0, FALSE, 0, 0)})

NextLogin ==
    \/ Login
    \/ RetryHead
    \/ RetryOperation
    \/ LoginPanic
    \/ RetryCancelled
    \/ RetryTimer
    \/ Cancel

SpecLogin == InitLogin /\ [][NextLogin]_vars

(***************************************************************************)
(* SimpleRateLimiter (internal/connect).  Both methods hold the mutex for  *)
(* their whole body, so each is one step; time.Now() is the clock.         *)
(***************************************************************************)
TimeWindows == 0..2

\* connTime.After(cutoff) with the cutoff itself taken as later
AfterOrEqual(t, u) == t >= u

\* t.After(u)
After(t, u) == t > u

NewSimpleRateLimiter ==
    /\ pc = "idle"
    /\ \E maxConnections \in 0..MaxConnections, timeWindow \in TimeWindows :
        /\ limiter' = [maxConnections |-> maxConnections,
                       timeWindow |-> timeWindow, connections |-> <<>>]
        /\ call' = [op |-> "NewSimpleRateLimiter",
                    args |-> <<maxConnections, timeWindow>>]
    /\ pc' = "limiter"
    /\ recorded' = <<>>
    /\ UNCHANGED <<connect, engineVars, retry, ctxErr, ret, clock>>

\* the clock advances between two calls
TimePasses ==
    /\ pc = "limiter"
    /\ clock < ClockMax
    /\ clock' = clock + 1
    /\ UNCHANGED <<connect, engineVars, retry, limiter, recorded, ctxErr, pc, call, ret>>

CanSendConnection ==
    /\ pc = "limiter"
    /\ LET now == clock
           cutoff == now - limiter.timeWindow
           validConnections ==
               SelectSeq(limiter.connections, LAMBDA connTime : After(connTime, cutoff))
       IN /\ limiter' = [limiter EXCEPT !.connections = validConnections]
          /\ call' = [op |-> "CanSendConnection", args |-> <<now>>]
          /\ out' = (Len(validConnections) < limiter.maxConnections)
    /\ UNCHANGED <<config, text, k, n, path, stepSize, scrollDistance, elem,
                   mouse, scrollY, acts, lastAct, sleepCount, lastSleep,
                   retry, recorded, connect, ctxErr, pc, ret, clock>>

RecordConnection ==
    /\ pc = "limiter"
    /\ Len(recorded) < MaxRecords
    /\ limiter' = [limiter EXCEPT !.connections = Append(@, clock)]
    /\ recorded' = Append(recorded, clock)
    /\ call' = [op |-> "RecordConnection", args |-> <<clock>>]
    /\ UNCHANGED <<connect, engineVars, retry, ctxErr, pc, ret, clock>>

InitLimiter == InitWith({StealthConfig(0, 0, FALSE, 0, 0)})

NextLimiter ==
    \/ NewSimpleRateLimiter
    \/ TimePasses
    \/ CanSendConnection
    \/ RecordConnection

SpecLimiter == InitLimiter /\ [][NextLimiter]_vars

(***************************************************************************)
(* ConnectManager.SendConnectionRequest (internal/connect), called by the  *)
(* goroutines of Threads on one manager and one SimpleRateLimiter.  Each   *)
(* browser or storage call of the function is one step of the calling      *)
(* goroutine; the sleeps between them let the clock advance.               *)
(***************************************************************************)
Threads == 1..2

NotCalled == [pc |-> "none", ret |-> Nil, page |-> "nil", note |-> "", effects |-> 0]

\* the page and the note given to a call
Pages == {"nil", "page"}

Notes == {"", "hello"}

\* the storage given to NewConnectManager: nil, or one whose saves can fail
Storages == {"nil", "storage"}

RateLimitError == Plain("rate limit exceeded, cannot send connection request")

NewConnectManager ==
    /\ pc = "idle"
    /\ \E maxConnections \in 0..MaxConnections, timeWindow \in TimeWindows,
          storage \in Storages :
        /\ limiter' = [maxConnections |-> maxConnections,
                       timeWindow |-> timeWindow, connections |-> <<>>]
        /\ connect' = [storage |-> storage,
                       threads |-> [t \in Threads |-> NotCalled],
                       calls |-> 0, sent |-> <<>>]
        /\ call' = [op |-> "NewConnectManager",
                    args |-> <<storage, maxConnections, timeWindow>>]
    /\ pc' = "connect"
    /\ recorded' = <<>>
    /\ UNCHANGED <<engineVars, retry, ctxErr, ret, clock>>

\* the calling goroutine moves to position p, after one more browser or
\* storage action when effect = 1
Goto(t, p, effect) ==
    connect' = [connect EXCEPT !.threads[t].pc = p,
                               !.threads[t].effects = @ + effect]

\* `return err` of the call of goroutine t
SendReturn(t, err, effect) ==
    connect' = [connect EXCEPT !.threads[t].pc = "done",
                               !.threads[t].ret = err,
                               !.threads[t].effects = @ + effect]

ConnectFrame == UNCHANGED <<engineVars, retry, ctxErr, pc, call, ret, clock>>

\* goroutine t calls SendConnectionRequest(ctx, page, profileURL, note)
SendStart(t) ==
    /\ pc = "connect"
    /\ connect.threads[t].pc \in {"none", "done"}
    /\ connect.calls < MaxCalls
    /\ \E page \in Pages, note \in Notes :
        connect' = [connect EXCEPT
                        !.threads[t] = [pc |-> "check", ret |-> Running,
                                        page |-> page, note |-> note,
                                        effects |-> 0],
                        !.calls = @ + 1]
    /\ UNCHANGED <<limiter, recorded>>
    /\ ConnectFrame

\* a call made while no other call is running
SendConnectionRequest ==
    \E t \in Threads :
        /\ pc = "connect"
        /\ \A u \in Threads : connect.threads[u].pc \in {"none", "done"}
        /\ SendStart(t)

\* a call made whatever the other goroutines are doing
SendConnectionRequestConcurrently == \E t \in Threads : SendStart(t)

\* `if cm.rateLimiter != nil && !cm.rateLimiter.CanSendConnection()`, then
\* `if page == nil`
SendCheck(t) ==
    /\ pc = "connect"
    /\ connect.threads[t].pc = "check"
    /\ LET now == clock
           cutoff == now - limiter.timeWindow
           validConnections ==
               SelectSeq(limiter.connections, LAMBDA connTime : After(connTime, cutoff))
       IN /\ limiter' = [limiter EXCEPT !.connections = validConnections]
          /\ IF ~(Len(validConnections) < limiter.maxConnections)
             THEN SendReturn(t, RateLimitError, 0)
             ELSE IF connect.threads[t].page = "nil"
                  THEN SendReturn(t, Plain("page cannot be nil"), 0)
                  ELSE Goto(t, "navigate", 0)
    /\ UNCHANGED recorded
    /\ ConnectFrame

\* cm.NavigateToProfile
SendNavigate(t) ==
    /\ pc = "connect"
    /\ connect.threads[t].pc = "navigate"
    /\ \/ \E e \in DriverErrs :
            SendReturn(t, Wrapped("failed to navigate to profile", e), 1)
       \/ Goto(t, "detect", 1)
    /\ UNCHANGED <<limiter, recorded>>
    /\ ConnectFrame

\* cm.DetectConnectButton, the pointer moved to the button (a failure of the
\* move is ignored), and connectButton.Click
SendClickConnect(t) ==
    /\ pc = "connect"
    /\ connect.threads[t].pc = "detect"
    /\ \/ \E e \in DriverErrs :
            SendReturn(t, Wrapped("failed to detect Connect button", e), 0)
       \/ \E e \in DriverErrs :
            SendReturn(t, Wrapped("failed to click Connect button", e), 1)
       \/ Goto(t, IF connect.threads[t].note # "" THEN "note" ELSE "confirm", 1)
    /\ UNCHANGED <<limiter, recorded>>
    /\ ConnectFrame

\* cm.handleConnectionNote: its failure is printed and the call goes on
SendNote(t) ==
    /\ pc = "connect"
    /\ connect.threads[t].pc = "note"
    /\ Goto(t, "confirm", 1)
    /\ UNCHANGED <<limiter, recorded>>
    /\ ConnectFrame

\* cm.confirmConnectionRequest: the Send button is looked for and clicked;
\* once it is clicked the request is sent
SendConfirm(t) ==
    /\ pc = "connect"
    /\ connect.threads[t].pc = "confirm"
    /\ \/ SendReturn(t, Wrapped("failed to confirm connection request",
                                "could not find Send button"), 0)
       \/ \E e \in DriverErrs :
            SendReturn(t, Wrapped("failed to confirm connection request", e), 1)
       \/ connect' = [connect EXCEPT !.threads[t].pc = "track",
                                     !.threads[t].effects = @ + 1,
                                     !.sent = Append(@, clock)]
    /\ UNCHANGED <<limiter, recorded>>
    /\ ConnectFrame

\* cm.TrackSentRequest: `return` before RecordConnection when it fails
SendTrack(t) ==
    /\ pc = "connect"
    /\ connect.threads[t].pc = "track"
    /\ IF connect.storage = "nil"
       THEN SendReturn(t, Wrapped("failed to track sent request",
                                  "storage interface not configured"), 0)
       ELSE \/ SendReturn(t, Wrapped("failed to track sent request",
                                     "failed to save connection request"), 1)
            \/ Goto(t, "record", 1)
    /\ UNCHANGED <<limiter, recorded>>
    /\ ConnectFrame

\* `cm.rateLimiter.RecordConnection()`, then `return nil`
SendRecord(t) ==
    /\ pc = "connect"
    /\ connect.threads[t].pc = "record"
    /\ limiter' = [limiter EXCEPT !.connections = Append(@, clock)]
    /\ recorded' = Append(recorded, clock)
    /\ SendReturn(t, Nil, 1)
    /\ ConnectFrame

\* time.Sleep in a call, or time between two calls
ConnectTimePasses ==
    /\ pc = "connect"
    /\ clock < ClockMax
    /\ clock' = clock + 1
    /\ UNCHANGED <<connect, engineVars, retry, limiter, recorded, ctxErr, pc, call, ret>>

SendStep(t) ==
    \/ SendCheck(t)
    \/ SendNavigate(t)
    \/ SendClickConnect(t)
    \/ SendNote(t)
    \/ SendConfirm(t)
    \/ SendTrack(t)
    \/ SendRecord(t)

InitConnect == InitWith({StealthConfig(0, 0, FALSE, 0, 0)})

\* calls made one after the other
NextConnect ==
    \/ NewConnectManager
    \/ SendConnectionRequest
    \/ \E t \in Threads : SendStep(t)
    \/ ConnectTimePasses

SpecConnect == InitConnect /\ [][NextConnect]_vars

\* calls made by goroutines running at the same time
NextConcurrent ==
    \/ NewConnectManager
    \/ SendConnectionRequestConcurrently
    \/ \E t \in Threads : SendStep(t)
    \/ ConnectTimePasses

SpecConcurrent == InitConnect /\ [][NextConcurrent]_vars

(***************************************************************************)
(* Properties of HumanType (SpecTyping)                                    *)
(***************************************************************************)
TypeReturned(r) == call.op = "HumanType" /\ pc = "done" /\ ret = r

\* C1: when HumanType returns success the element's content equals the
\* input text exactly, for every text (the empty one included) and every
\* prior content of the element.
C1_TypingFidelity ==
    TypeReturned(Nil) => elem.content = text

C4_NoSleepAfterLastChar ==
    (TypeReturned(Nil) /\ Len(text) > 0) =>
        sleepCount["keystroke"] = Len(text) - 1

(***************************************************************************)
(* Properties of the engine (Spec)                                         *)
(***************************************************************************)
\* the call stands at a step-boundary checkpoint of a loop that has more to do
AtCheckpoint ==
    \/ pc = "mouse_check" /\ k <= Len(path)
    \/ pc = "type_check" /\ k <= Len(text)
    \/ pc = "scroll_check" /\ k < n
    \/ pc = "idle_check" /\ k < n

\* C2: in HumanMouseMove, HumanType, ScrollNaturally and IdleBehavior, a
\* checkpoint that observes the cancellation ends the call at once: no
\* further driver action or sleep, and the value returned is the context's
\* error itself, not wrapped; and the context's error is returned by nothing
\* but such a checkpoint, so it is never mistaken for a driver failure.
C2_CancellationAtCheckpoint ==
    [][ /\ (AtCheckpoint /\ ctxErr # "nil") =>
             /\ pc' = "done"
             /\ ret' = [kind |-> "ctx", msg |-> ctxErr, cause |-> ""]
             /\ UNCHANGED <<acts, lastAct, elem, mouse, scrollY, sleepCount,
                            lastSleep>>
        /\ (pc # "done" /\ pc' = "done" /\ ret'.kind = "ctx") =>
             (AtCheckpoint /\ ctxErr # "nil")
        /\ (pc # "done" /\ pc' = "done" /\ ret'.kind = "wrapped") =>
             ret'.cause \in DriverErrs
      ]_vars

\* C2 witness: a call cancelled after it had issued driver actions
C2_Witness ==
    /\ call.op \in {"HumanMouseMove", "HumanType", "ScrollNaturally", "IdleBehavior"}
    /\ pc = "done"
    /\ ret.kind = "ctx"
    /\ acts > 1

\* C5: RandomDelay(min, max) always returns success, after one sleep of a
\* duration between the smaller and the larger of min and max; of exactly
\* that duration when min = max.
C5_RandomDelayInBounds ==
    (call.op = "RandomDelay" /\ pc = "done") =>
        LET min == call.args[1]
            max == call.args[2]
        IN /\ ret = Nil
           /\ sleepCount["delay"] = 1
           /\ Min2(min, max) <= lastSleep.d
           /\ lastSleep.d <= Max2(min, max)

\* C6: with elapsed = now - lastActionTime, EnforceCooldown sleeps exactly
\* P - elapsed when elapsed < P and does not sleep when elapsed >= P; when
\* it returns, at least P has elapsed since lastActionTime.
C6_CooldownEnforced ==
    (call.op = "EnforceCooldown" /\ pc = "done") =>
        LET lastAction == call.args[1]
            P == call.args[2]
            now == call.args[3]
            elapsed == now - lastAction
        IN /\ elapsed < P => clock - now = P - elapsed
           /\ elapsed >= P => clock = now
           /\ clock - lastAction >= P

\* C7: EnforceCooldown with a zero or negative cooldownPeriod returns
\* without sleeping, wherever lastActionTime lies.
C7_NoBlockWithoutPeriod ==
    (call.op = "EnforceCooldown" /\ pc = "done" /\ call.args[2] <= 0) =>
        clock = call.args[3]

\* C9: ShouldRateLimit is false when maxActions <= 0 and otherwise true
\* exactly when actionCount >= maxActions.
C9_RateLimit ==
    (call.op = "ShouldRateLimit" /\ pc = "done") =>
        LET actionCount == call.args[1]
            maxActions == call.args[3]
        IN /\ maxActions <= 0 => out = FALSE
           /\ maxActions > 0 => (out <=> actionCount >= maxActions)

\* C9 witness: a count at the maximum is limited
C9_Witness ==
    /\ call.op = "ShouldRateLimit"
    /\ pc = "done"
    /\ call.args[3] > 0
    /\ call.args[1] = call.args[3]
    /\ out

\* C10: the path of generateBezierPath has clamp(floor(d / 5), 10, 100)
\* points, d the distance between start and end: with m the squared
\* distance, a path of more than 10 points has 25 * len^2 <= m and one of
\* fewer than 100 points has m < 25 * (len + 1)^2 (m is in quarter pixels
\* squared here, hence the factor 16).
C10_PathLength ==
    (call.op = "generateBezierPath" /\ pc = "done") =>
        LET start == call.args[1]
            end == call.args[2]
            m == (end.X - start.X) * (end.X - start.X)
                   + (end.Y - start.Y) * (end.Y - start.Y)
            len == Len(path)
            unit == 25 * 16
        IN /\ 10 <= len
           /\ len <= 100
           /\ len > 10 => unit * len * len <= m
           /\ len < 100 => m < unit * (len + 1) * (len + 1)

\* C10 witness: a path whose length lies strictly between the clamps
C10_Witness ==
    /\ call.op = "generateBezierPath"
    /\ pc = "done"
    /\ Len(path) \in 11..99

(***************************************************************************)
(* Properties of IsWithinBusinessHours (SpecSchedule)                      *)
(***************************************************************************)
\* the hours of the configured window
BusinessWindow ==
    IF config.BusinessStart <= config.BusinessEnd
    THEN {h \in Hours : config.BusinessStart <= h /\ h < config.BusinessEnd}
    ELSE {h \in Hours : h >= config.BusinessStart}
           \cup {h \in Hours : h < config.BusinessEnd}

\* C8: IsWithinBusinessHours is true when the gate is disabled; when it is
\* enabled it is true exactly for the hours of [start, end) if start <= end,
\* and for the hours >= start or < end if start > end.
C8_BusinessHours ==
    (call.op = "IsWithinBusinessHours" /\ pc = "done") =>
        /\ ~config.BusinessHours => out = TRUE
        /\ config.BusinessHours => (out <=> call.args[1] \in BusinessWindow)

\* C8 witness: a window spanning midnight, at an hour after midnight inside it
C8_Witness ==
    /\ call.op = "IsWithinBusinessHours"
    /\ pc = "done"
    /\ config.BusinessHours
    /\ config.BusinessStart > config.BusinessEnd
    /\ call.args[1] < config.BusinessEnd
    /\ out

(***************************************************************************)
(* Properties of generateBezierPath (Spec)                                 *)
(***************************************************************************)
\* smallest r with r * r >= dx^2 + dy^2: math.Sqrt rounded up to a quarter pixel
CeilSqrt2(dx, dy) ==
    CHOOSE r \in Max2(Abs(dx), Abs(dy))..(Abs(dx) + Abs(dy)) :
        /\ r * r >= dx * dx + dy * dy
        /\ (r = 0 \/ (r - 1) * (r - 1) < dx * dx + dy * dy)

RECURSIVE PathLengthUpper(_, _)
\* pathLength of the test over the first j points, every step rounded up
PathLengthUpper(p, j) ==
    IF j <= 1 THEN 0
    ELSE PathLengthUpper(p, j - 1)
           + CeilSqrt2(p[j].X - p[j - 1].X, p[j].Y - p[j - 1].Y)

\* C11: for start and end more than 10 units apart, whatever the control
\* noise and the jitter drawn, the length of the path (the sum of the
\* distances of consecutive points) is strictly greater than the distance
\* from start to end.  The length is taken rounded up and the distance
\* rounded down, so a violation here is a violation of the claim.
C11_PathLongerThanLine ==
    (call.op = "generateBezierPath" /\ pc = "done") =>
        LET start == call.args[1]
            end == call.args[2]
            m == (end.X - start.X) * (end.X - start.X)
                   + (end.Y - start.Y) * (end.Y - start.Y)
        IN m > Px(10) * Px(10) => PathLengthUpper(path, Len(path)) > FloorSqrt(m)

(***************************************************************************)
(* Properties of HumanMouseMove, ScrollNaturally and IdleBehavior (Spec)   *)
(***************************************************************************)
\* C12: when the target's shape has no quads, HumanMouseMove returns the
\* "target element has no visible area" error, having issued no pointer move
\* (no driver action at all) and having slept not once.
C12_NoVisibleArea ==
    (call.op = "HumanMouseMove" /\ call.args[1] = "no quads") =>
        /\ pc = "done"
        /\ ret = [kind |-> "plain", msg |-> "target element has no visible area",
                  cause |-> ""]
        /\ acts = 0
        /\ lastAct = NoAct
        /\ sleepCount = NoSleeps
        /\ path = <<>>

C12_Witness ==
    /\ call.op = "HumanMouseMove"
    /\ call.args[1] = "no quads"
    /\ pc = "done"
    /\ ret.kind = "plain"

FailFastCalls == {"HumanMouseMove", "HumanType", "ScrollNaturally"}

\* C13: in HumanMouseMove, HumanType and ScrollNaturally the first driver
\* action that fails ends the call: the step that sees the failure returns an
\* error wrapping the driver's error (never success), and from then on no
\* driver action is issued (no retry, no undoing of the actions issued
\* before) and the result stays.
C13_FirstDriverFailureReturns ==
    [][/\ (call'.op \in FailFastCalls /\ lastAct'.err # "nil") =>
            /\ pc' = "done"
            /\ ret'.kind = "wrapped"
            /\ ret'.cause = lastAct'.err
       /\ (call.op \in FailFastCalls /\ lastAct.err # "nil") =>
            UNCHANGED <<acts, lastAct, ret, elem, mouse, scrollY>>]_vars

\* a scroll fails after an earlier scroll succeeded
C13_Witness ==
    /\ call.op = "ScrollNaturally"
    /\ lastAct.kind = "scroll"
    /\ lastAct.err # "nil"
    /\ acts > 1
    /\ scrollY # 0
    /\ pc = "done"

\* C14: an IdleBehavior call attempts at most 5 pointer moves, each to a
\* point with 100 <= x <= 900 and 100 <= y <= 700; a call that is not
\* cancelled returns after between 2 and 5 attempts.
C14_IdleMoves ==
    call.op = "IdleBehavior" =>
        /\ acts <= 5
        /\ lastAct.kind \in {"none", "move"}
        /\ lastAct.kind = "move" =>
              /\ Px(100) <= lastAct.arg[1].X /\ lastAct.arg[1].X <= Px(900)
              /\ Px(100) <= lastAct.arg[1].Y /\ lastAct.arg[1].Y <= Px(700)
        /\ (pc = "done" /\ ctxErr = "nil") => (acts >= 2 /\ acts <= 5)

\* an uncancelled call returns after its fifth move
C14_Witness ==
    /\ call.op = "IdleBehavior"
    /\ pc = "done"
    /\ ctxErr = "nil"
    /\ acts = 5
    /\ lastAct.kind = "move"

\* C15: a failed move never ends IdleBehavior: the call returns success or
\* the context's error, nothing else; a call that is not cancelled has
\* attempted the number of moves it drew and returns success, also when
\* moves failed.
C15_IdleFailureSkipped ==
    call.op = "IdleBehavior" =>
        /\ ret.kind \in {"running", "nil", "ctx"}
        /\ ret.kind = "ctx" => ctxErr # "nil"
        /\ (pc = "done" /\ ctxErr = "nil") => (ret.kind = "nil" /\ acts = n)

\* every move failed (no pause was taken) and the call returned success
C15_Witness ==
    /\ call.op = "IdleBehavior"
    /\ pc = "done"
    /\ ret.kind = "nil"
    /\ acts = n
    /\ lastAct.err # "nil"
    /\ sleepCount["idle"] = 0

\* C16: a ScrollNaturally call that returns success has issued between 3 and
\* 7 scrolls, all of the same delta (so of the same sign), and the deltas sum
\* to the base distance drawn, whose magnitude is between 100 and 400.
C16_ScrollSumsToDistance ==
    (call.op = "ScrollNaturally" /\ pc = "done" /\ ret.kind = "nil") =>
        /\ acts >= 3 /\ acts <= 7
        /\ lastAct.kind = "scroll" /\ lastAct.arg[1] = stepSize
        /\ scrollY = acts * stepSize
        /\ Abs(scrollDistance) >= 100 /\ Abs(scrollDistance) <= 400
        /\ scrollY = scrollDistance

(***************************************************************************)
(* Properties of RetryWithBackoff (SpecRetry)                              *)
(***************************************************************************)
\* the operation returned nil, or a *LinkedInError whose type is not retryable
Stops(err) ==
    \/ err.kind = "nil"
    \/ err.kind = "linkedin" /\ err.msg \notin retry.config.RetryableErrors

\* the operation was invoked exactly k times, k the first attempt that stops,
\* or MaxAttempts, and attempt k's result was returned
ReturnedAttemptK ==
    LET m == Len(retry.errs)
    IN /\ m >= 1
       /\ \A a \in 1..(m - 1) : ~Stops(retry.errs[a])
       /\ Stops(retry.errs[m]) \/ m = retry.config.MaxAttempts
       /\ ret.kind = retry.errs[m].kind
       /\ ret.kind # "nil" => ret = retry.errs[m]

RetryReturned ==
    /\ call.op = "RetryWithBackoff"
    /\ pc = "done"
    /\ retry.config.MaxAttempts >= 1

\* C17 as stated: RetryWithBackoff with MaxAttempts >= 1 invokes the
\* operation exactly k times, k the smallest attempt at which the operation
\* returns nil or a *LinkedInError that is not retryable, or MaxAttempts, and
\* returns nil or the very error of attempt k.
C17_ExactAttempts == RetryReturned => ReturnedAttemptK

\* C17, amended: the same, unless the call returns the context's error from a
\* wait between attempts; then the context is done and the operation was
\* invoked fewer than MaxAttempts times, every time with a retryable error.
C17_ExactAttemptsUnlessCancelled ==
    RetryReturned =>
        IF ret.kind = "ctx"
        THEN /\ ctxErr # "nil"
             /\ Len(retry.errs) >= 1
             /\ Len(retry.errs) < retry.config.MaxAttempts
             /\ \A a \in 1..Len(retry.errs) : ~Stops(retry.errs[a])
        ELSE ReturnedAttemptK

\* the second of three attempts returned an error that is not retryable
C17_Witness ==
    /\ RetryReturned
    /\ retry.config.MaxAttempts = 3
    /\ Len(retry.errs) = 2
    /\ retry.errs[1].kind = "other"
    /\ ret.kind = "linkedin"
    /\ ret.attempt = 2

RECURSIVE SumDelays(_, _)
\* the time waited through the first j delays
SumDelays(d, j) == IF j = 0 THEN 0 ELSE SumDelays(d, j - 1) + Max2(d[j], 0)

\* BackoffFactor >= 1
FactorAtLeastOne == retry.config.BackoffFactor[1] >= retry.config.BackoffFactor[2]

\* C18: the delay between attempt i and attempt i+1 is
\* min(InitialDelay * BackoffFactor^(i-1), MaxDelay), as a whole number of
\* units (the fraction dropped); the delays never exceed MaxDelay, they are
\* non-decreasing when BackoffFactor >= 1, the clock advances by the delay,
\* and no delay follows attempt MaxAttempts or an attempt that ends the call.
C18_BackoffDelays ==
    call.op = "RetryWithBackoff" =>
        LET cfg == retry.config
            d == retry.delays
        IN /\ \A i \in 1..Len(d) :
                LET num == cfg.InitialDelay * Pow(cfg.BackoffFactor[1], i - 1)
                    den == Pow(cfg.BackoffFactor[2], i - 1)
                IN /\ IF num > cfg.MaxDelay * den
                      THEN d[i] = cfg.MaxDelay
                      ELSE d[i] * den <= num /\ num < (d[i] + 1) * den
                   /\ d[i] <= cfg.MaxDelay
                   /\ (FactorAtLeastOne /\ i > 1) => d[i - 1] <= d[i]
           /\ Len(d) <= Len(retry.errs)
           /\ Len(d) < Max2(cfg.MaxAttempts, 1)
           /\ (pc = "done" /\ ret.kind # "ctx") => Len(d) = Max2(Len(retry.errs) - 1, 0)
           /\ pc = "retry_head" => clock = SumDelays(d, Len(d))

\* two delays were waited: the first rounded down, the second capped
C18_Witness ==
    /\ call.op = "RetryWithBackoff"
    /\ pc = "done"
    /\ retry.config.BackoffFactor = <<3, 2>>
    /\ retry.config.InitialDelay = 3
    /\ retry.config.MaxDelay = 2
    /\ Len(retry.errs) = 3
    /\ retry.delays = <<2, 2>>
    /\ clock = 4

\* C19: when the context is done while RetryWithBackoff waits between two
\* attempts (a delay greater than zero is running), the wait ends with the
\* call returning the context's error, not an error of the operation, and
\* the operation has been invoked fewer than MaxAttempts times.
C19_CancelledWhileWaiting ==
    [][(/\ call.op = "RetryWithBackoff"
        /\ pc = "retry_wait"
        /\ ctxErr # "nil"
        /\ retry.delays[Len(retry.delays)] > 0
        /\ pc' # pc) =>
            /\ pc' = "done"
            /\ ret' = [kind |-> "ctx", msg |-> ctxErr, cause |-> ""]
            /\ retry' = retry
            /\ Len(retry.errs) < retry.config.MaxAttempts]_vars

\* the deadline passed during the wait after the second attempt
C19_Witness ==
    /\ call.op = "RetryWithBackoff"
    /\ pc = "done"
    /\ ret.kind = "ctx"
    /\ ret.msg = "context deadline exceeded"
    /\ Len(retry.errs) = 2
    /\ retry.delays[2] > 0
    /\ clock > 0

(***************************************************************************)
(* Properties of SimpleRateLimiter (SpecLimiter)                           *)
(***************************************************************************)
\* the connections recorded strictly later than now - window
RecordedInWindow(now) ==
    {i \in 1..Len(recorded) : recorded[i] > now - limiter.timeWindow}

\* C20: after any sequence of RecordConnection and CanSendConnection calls,
\* CanSendConnection returns true exactly when fewer than maxConnections of
\* the recorded connections are strictly later than now - timeWindow: true
\* on a fresh limiter with maxConnections >= 1, false when maxConnections
\* records are within the window, true again once they have aged out.
C20_CanSendIffBelowMax ==
    call.op = "CanSendConnection" =>
        LET now == call.args[1]
        IN /\ out <=> Cardinality(RecordedInWindow(now)) < limiter.maxConnections
           /\ (recorded = <<>> /\ limiter.maxConnections >= 1) => out
           /\ (Cardinality(RecordedInWindow(now)) >= limiter.maxConnections) => ~out
           /\ Len(limiter.connections) = Cardinality(RecordedInWindow(now))

\* maxConnections records were made, they have aged out, and the limiter
\* lets a connection through again
C20_Witness ==
    /\ call.op = "CanSendConnection"
    /\ out
    /\ limiter.maxConnections = 2
    /\ limiter.timeWindow = 2
    /\ Len(recorded) = 3
    /\ Len(limiter.connections) = 1

(***************************************************************************)
(* Further properties of the engine (Spec, SpecTyping)                     *)
(***************************************************************************)
\* C23: every iteration of IdleBehavior sleeps 500 to 1500 ms after its move
\* attempt, before the next cancellation check, whether the move succeeded
\* or failed: at the loop head one sleep has been taken per iteration done.
C23_IdleSleepsEveryIteration ==
    (call.op = "IdleBehavior" /\ pc = "idle_check") =>
        /\ sleepCount["idle"] = k
        /\ k > 0 => (lastSleep.kind = "idle" /\ lastSleep.d >= 500 /\ lastSleep.d <= 1500)

\* the characters HumanType has entered: what the element holds once the
\* selection of the prior content has been replaced
Entered == IF elem.selected THEN <<>> ELSE elem.content

\* C25: when HumanType returns because of cancellation, the characters it
\* has entered form a prefix of the input text; no wrong character is left.
C25_CancelledLeavesPrefix ==
    (call.op = "HumanType" /\ pc = "done" /\ ret.kind = "ctx") =>
        /\ Len(Entered) <= Len(text)
        /\ \A i \in 1..Len(Entered) : Entered[i] = text[i]

\* C26: with typingMinDelay <= typingMaxDelay (equal bounds and one zero
\* bound included) and a text of at least two characters, HumanType ends by
\* returning success or an error; the delay computation never panics.
C26_DelayNeverAborts ==
    (/\ call.op = "HumanType"
     /\ config.TypingMinDelay <= config.TypingMaxDelay
     /\ Len(text) >= 2) => ret.kind # "panic"

\* C30: a HumanMouseMove that returns success has issued one move per path
\* point, in path order (the i-th move goes to the i-th point), along a path
\* of 10 to 100 points generated from the assumed position (100, 100)
\* wherever the pointer was, and has slept 1 to 5 ms after every move but
\* the last.
C30_MoveEvents ==
    call.op = "HumanMouseMove" =>
        /\ acts >= 1 => (lastAct.kind = "move" /\ lastAct.arg = <<path[acts]>>)
        /\ (lastAct.kind = "move" /\ lastAct.err = "nil") => mouse = path[acts]
        /\ sleepCount["mouse"] >= 1 =>
              (lastSleep.kind = "mouse" /\ lastSleep.d >= 1 /\ lastSleep.d <= 5)
        /\ Len(path) > 0 =>
              /\ Abs(path[1].X - Px(100)) <= Px(1)
              /\ Abs(path[1].Y - Px(100)) <= Px(1)
        /\ (pc = "done" /\ ret.kind = "nil") =>
              /\ acts = Len(path)
              /\ acts >= 10 /\ acts <= 100
              /\ sleepCount["mouse"] = acts - 1

\* a call that found the pointer elsewhere returned after 100 moves
C30_Witness ==
    /\ call.op = "HumanMouseMove"
    /\ pc = "done"
    /\ ret.kind = "nil"
    /\ acts = 100
    /\ sleepCount["mouse"] = 99
    /\ mouse = path[100]

(***************************************************************************)
(* Further properties of RetryWithBackoff (SpecRetry)                      *)
(***************************************************************************)
\* C27: for every RetryConfig, MaxAttempts <= 0 included, RetryWithBackoff
\* returns nil only if some invocation of the operation returned nil.
C27_NilOnlyAfterSuccess ==
    (call.op = "RetryWithBackoff" /\ pc = "done" /\ ret.kind = "nil") =>
        \E a \in 1..Len(retry.errs) : retry.errs[a].kind = "nil"

\* C28: RetryWithBackoff never invokes the operation when the context is
\* already done: the loop never goes from its head to an invocation, for the
\* first attempt or after a wait, with a cancelled or expired context.
C28_NoAttemptWhenCancelled ==
    [][(call.op = "RetryWithBackoff" /\ pc = "retry_head" /\ pc' = "retry_op") =>
            ctxErr = "nil"]_vars


(***************************************************************************)
(* Properties of Login (SpecLogin)                                         *)
(***************************************************************************)
LoginReturned == call.op = "Login" /\ pc = "done"

PermanentFailure(err) == err.kind = "linkedin" /\ err.msg = "ErrorTypePermanent"

RetryableFailure(err) ==
    err.kind = "linkedin" /\ err.msg \in LoginRetryConfig.RetryableErrors

\* what holds of every Login: at most two attempts, a nil page rejected before
\* any attempt, and a permanent failure (or a panic) ends Login at that attempt
LoginEnds ==
    LET m == Len(retry.errs)
    IN /\ call.op = "Login" => m <= 2
       /\ LoginReturned /\ call.args[1] = "nil" =>
            /\ m = 0
            /\ ret.kind = "linkedin"
            /\ ret.msg = "ErrorTypeConfiguration"
       /\ LoginReturned =>
            \A a \in 1..m :
                /\ PermanentFailure(retry.errs[a]) => m = a /\ ret = retry.errs[a]
                /\ retry.errs[a].kind = "panic" =>
                      m = a /\ PermanentFailure(ret) /\ ret.cause = "panic occurred"

SecondAttemptAfterWait ==
    /\ Len(retry.errs) = 2
    /\ retry.delays = <<LoginRetryConfig.InitialDelay>>

\* C24 as stated: Login runs its login sequence at most twice; a permanent
\* failure ends Login after that attempt with that error, a retryable failure
\* on the first attempt leads to exactly one more attempt after the backoff
\* wait, and a nil page is rejected with a configuration error before any
\* attempt.
C24_LoginAttempts ==
    /\ LoginEnds
    /\ (LoginReturned /\ Len(retry.errs) >= 1 /\ RetryableFailure(retry.errs[1])) =>
            SecondAttemptAfterWait

\* C24, amended: the same, except that a retryable failure on the first
\* attempt leads to one more attempt after the backoff wait unless the context
\* is done during that wait; then Login returns the context's error after the
\* one attempt.
C24_LoginAttemptsUnlessCancelled ==
    /\ LoginEnds
    /\ (LoginReturned /\ Len(retry.errs) >= 1 /\ RetryableFailure(retry.errs[1])) =>
            IF ret.kind = "ctx"
            THEN Len(retry.errs) = 1 /\ ctxErr # "nil"
            ELSE SecondAttemptAfterWait

\* a transient failure, the wait, then a security challenge on the second attempt
C24_Witness ==
    /\ LoginReturned
    /\ Len(retry.errs) = 2
    /\ retry.errs[1].msg = "ErrorTypeTransient"
    /\ ret = LoginError("ErrorTypePermanent", "security challenge detected", 2)


(***************************************************************************)
(* Properties of SendConnectionRequest (SpecConnect, SpecConcurrent)       *)
(***************************************************************************)
\* how many of the times of log lie in the interval (t - window, t]
InWindow(log, t) ==
    Cardinality({i \in DOMAIN log :
                    t - limiter.timeWindow < log[i] /\ log[i] <= t})

\* C21: with calls made one after the other, the requests actually sent (the
\* Send button clicked) within any interval of the limiter's window never
\* exceed maxConnections, whatever storage or the browser report.
C21_SentWithinLimit ==
    pc = "connect" =>
        \A t \in 0..ClockMax : InWindow(connect.sent, t) <= limiter.maxConnections

\* the limiter answers false to the check goroutine t is about to make
LimiterRejects(t) ==
    /\ pc = "connect"
    /\ connect.threads[t].pc = "check"
    /\ connect'.threads[t].pc # "check"
    /\ Len(SelectSeq(limiter.connections,
                     LAMBDA connTime : connTime > clock - limiter.timeWindow))
          >= limiter.maxConnections

\* C22: when CanSendConnection returns false, SendConnectionRequest returns
\* the rate-limit error before any other check or action: no navigation, no
\* click, no storage write, no RecordConnection, and the limiter's recorded
\* connections are unchanged.
C22_RateLimitedCallDoesNothing ==
    [][\A t \in Threads :
          LimiterRejects(t) =>
              /\ connect'.threads[t].pc = "done"
              /\ connect'.threads[t].ret = RateLimitError
              /\ connect'.threads[t].effects = 0
              /\ connect'.sent = connect.sent
              /\ recorded' = recorded
              /\ limiter'.connections = limiter.connections]_vars

\* C29: with calls made at the same time on one limiter, the connections
\* recorded within any interval of the limiter's window never exceed
\* maxConnections.
C29_RecordedWithinLimit ==
    pc = "connect" =>
        \A t \in 0..ClockMax : InWindow(recorded, t) <= limiter.maxConnections

====
